---- MODULE Spec2Model ----
(***************************************************************************)
(* The font-collection browsing screen (FontCollection, PaginationFooter,  *)
(* InstallFooter) of packages/edit-navigation/src/store/index.js as a      *)
(* state machine.  One step is one browser task: an event handler or a     *)
(* promise continuation, with the renders and effects it triggers; states  *)
(* are those in which the effects have settled.  The context's functions   *)
(* (getFontCollection, setNotice, installFont) keep their identity, so the *)
(* fetch effect runs again only for a new slug or a new notice.            *)
(***************************************************************************)
EXTENDS Integers, Sequences, FiniteSets

\* ------------------------------------------------------------------ bounds
MaxFonts == 4
MaxRuns == 2
MaxFetches == 2
MaxTimers == 2
MaxPage == 5

\* ------------------------------------------------------- program constants
MIN_WINDOW_HEIGHT == 500
UnavailableHeight == 417
ItemHeight == 61
LOCAL_STORAGE_ITEM == "wp-font-library-google-fonts-permission"

\* JavaScript's null and undefined; selectedFont's null
Null == "null"
Undef == "undefined"
NoFont == 0

\* ------------------------------------------------------------- input data
Slugs == {"google-fonts", "other"}
Heights == {300, 539, 600}
StorageValues == {Null, "true", "false"}
SearchInputs == {"a", "b"}
CategoryOptions == {"all", "serif"}
Faces == {"regular", "bold"}

\* The font families of a collection, in the collection's order.  Fonts are
\* numbered; the collection "other" holds one family, numbered MaxFonts + 1.
FontFamilies(s) ==
    IF s = "google-fonts" THEN [i \in 1..MaxFonts |-> i]
    ELSE <<MaxFonts + 1>>

AllFonts == 1..(MaxFonts + 1)

\* font.categories
FontCategories(f) == IF f % 2 = 1 THEN {"serif"} ELSE {}

\* The letters of font.font_family_settings.name, lower-cased.
FontName(f) == IF f % 3 = 0 THEN {"b"} ELSE IF f % 3 = 1 THEN {"a"} ELSE {"a", "b"}

\* font.fontFace: the family of the collection "other" declares no faces.
HasFontFace(f) == f <= MaxFonts

\* fontFace.src: the second face of an even family has no remote asset.
HasSrc(f, face) == ~(face = "bold" /\ f % 2 = 0)

Max(a, b) == IF a >= b THEN a ELSE b

NoticeNone == [type |-> Null, message |-> Null]
NoticeDownloadError ==
    [type |-> "error", message |-> "Error installing the fonts, could not be downloaded."]
NoticeSuccess == [type |-> "success", message |-> "Fonts were installed successfully."]
NoticeInstallError == [type |-> "error", message |-> "installFont error.message"]
NoticeFetchError == [type |-> "error", message |-> "getFontCollection e.message"]

EmptyFilters == [search |-> Undef, category |-> Undef]

VARIABLES
    slug,                \* the slug prop
    loaded,              \* context: which collections hold font_families
    notice,              \* context: notice
    isInstalling,        \* context: isInstalling
    storage,             \* window.localStorage[LOCAL_STORAGE_ITEM]
    storagePending,      \* a storage event of another tab not yet delivered
    innerHeight,         \* window.innerHeight
    windowHeight,        \* windowHeight as computed by the last render
    selectedFont,
    fontsToInstall,
    page,
    filters,
    renderConfirmDialog,
    fetches,             \* fetchFontCollection calls awaiting getFontCollection
    runs,                \* handleInstall calls in progress
    timers,              \* pending debounced handleUpdateSearchInput calls
    armed,               \* the last timer belongs to the current render's debounce
    writtenFor           \* history: the slug under which filters and page were last written

vars == <<slug, loaded, notice, isInstalling, storage, storagePending, innerHeight,
          windowHeight, selectedFont, fontsToInstall, page, filters,
          renderConfirmDialog, fetches, runs, timers, armed, writtenFor>>

\* ------------------------------------------------------- derived by render
requiresPermission == slug = "google-fonts"

getGoogleFontsPermissionFromStorage == storage = "true"

collectionFonts == IF loaded[slug] THEN FontFamilies(slug) ELSE <<>>

\* utils/filter-fonts
filterFonts(fs, flt) ==
    LET byCategory(f) ==
            flt.category \in {Undef, "", "all"} \/ flt.category \in FontCategories(f)
        bySearch(f) == flt.search \in {Undef, ""} \/ flt.search \in FontName(f)
        keep(f) == byCategory(f) /\ bySearch(f)
    IN SelectSeq(fs, keep)

fonts == filterFonts(collectionFonts, filters)

\* Math.floor( ( windowHeight - 417 ) / 61 )
PageSizeOf(h) == (h - UnavailableHeight) \div ItemHeight

pageSize == PageSizeOf(windowHeight)

\* A page count that rounds down.
TotalPagesFloor(n, ps) == n \div ps

\* Math.ceil( n / ps ), for n >= 0 and ps > 0
TotalPagesOf(n, ps) == (n + ps - 1) \div ps

totalPages == TotalPagesOf(Len(fonts), pageSize)

\* Array.prototype.slice( start, end ) on a 0-based array
Slice(s, start, end) ==
    LET lo == IF start > Len(s) THEN Len(s) ELSE start
        hi == IF end > Len(s) THEN Len(s) ELSE end
    IN IF hi <= lo THEN <<>> ELSE SubSeq(s, lo + 1, hi)

ItemsOf(fs, p, ps) == Slice(fs, (p - 1) * ps, p * ps)

items == ItemsOf(fonts, page, pageSize)

Range(s) == {s[i] : i \in 1..Len(s)}

\* ---------------------------------------------------------------- helpers
\* utils/toggleFont: toggles a face of a family, or a whole family, in the
\* list of families to install.
toggleFont(font, face, initialfonts) ==
    LET isFontActivated(e) == e.font = font
        isOther(e) == e.font # font
        activated == SelectSeq(initialfonts, isFontActivated)
        others == SelectSeq(initialfonts, isOther)
        allFaces == IF HasFontFace(font) THEN <<"regular", "bold">> ELSE <<>>
    IN IF face = Undef
       THEN IF activated = <<>>
            THEN Append(initialfonts,
                        [font |-> font, hasFaces |-> HasFontFace(font), fontFace |-> allFaces])
            ELSE others
       ELSE IF activated = <<>>
            THEN Append(initialfonts,
                        [font |-> font, hasFaces |-> TRUE, fontFace |-> <<face>>])
            ELSE LET cur == activated[1].fontFace
                     isNot(x) == x # face
                     newFontFaces == IF face \in Range(cur) THEN SelectSeq(cur, isNot)
                                     ELSE Append(cur, face)
                 IN IF newFontFaces = <<>> THEN others
                    ELSE [i \in DOMAIN initialfonts |->
                            IF isFontActivated(initialfonts[i])
                            THEN [initialfonts[i] EXCEPT !.fontFace = newFontFaces]
                            ELSE initialfonts[i]]

\* The faces handleInstall downloads for a family: those with a src.
FacesToDownload(fontFamily) ==
    IF fontFamily.hasFaces
    THEN {face \in Range(fontFamily.fontFace) : HasSrc(fontFamily.font, face)}
    ELSE {}

\* A handleInstall run: where it is, the family it took from fontsToInstall,
\* the faces whose file is set and the faces whose download rejected.
IdleRun == [pc |-> "idle", fontFamily |-> [font |-> NoFont, hasFaces |-> FALSE, fontFace |-> <<>>],
            file |-> {}, failed |-> {}]

RunsInProgress == {r \in 1..MaxRuns : runs[r].pc # "idle"}

\* The fetch effect (deps: slug, notice): fetchFontCollection() awaits
\* getFontCollection( slug ), which answers at once for a collection the
\* store already holds; resetFilters() then runs in the same task.
\* Otherwise the call stays in flight, with the slug and the notice it closed over.
FetchEffect(flt, pg, fs, s, noticeSet) ==
    IF loaded[s]
    THEN [filters |-> EmptyFilters, page |-> 1, fetches |-> fs]
    ELSE [filters |-> flt, page |-> pg,
          fetches |-> Append(fs, [slug |-> s, noticeSet |-> noticeSet])]

\* A render: windowHeight is read again, and debounce() builds a new debounced
\* function, so a timer still pending belongs to an earlier render.
Render ==
    /\ windowHeight' = Max(innerHeight, MIN_WINDOW_HEIGHT)
    /\ armed' = FALSE

NoRender == UNCHANGED <<windowHeight, armed>>

RemoveAt(s, i) == [j \in 1..(Len(s) - 1) |-> IF j < i THEN s[j] ELSE s[j + 1]]

\* ------------------------------------------------------------------- Init
\* The state after mount: the dialog flag from useState, the mount effects
\* run (handleStorage, fetchFontCollection, setSelectedFont( null ),
\* setNotice( null ), setFontsToInstall( [] )), no collection fetched yet.
Init ==
    /\ slug \in Slugs
    /\ loaded = [s \in Slugs |-> FALSE]
    /\ notice = NoticeNone
    /\ isInstalling = FALSE
    /\ storage \in StorageValues
    /\ storagePending = FALSE
    /\ innerHeight \in Heights
    /\ windowHeight = Max(innerHeight, MIN_WINDOW_HEIGHT)
    /\ selectedFont = NoFont
    /\ fontsToInstall = <<>>
    /\ page = 1
    /\ filters = EmptyFilters
    /\ renderConfirmDialog = (requiresPermission /\ ~getGoogleFontsPermissionFromStorage)
    /\ fetches = <<[slug |-> slug, noticeSet |-> FALSE]>>
    /\ runs = [r \in 1..MaxRuns |-> IdleRun]
    /\ timers = <<>>
    /\ armed = FALSE
    /\ writtenFor = slug

\* The history variable follows every step that writes filters or page: each
\* action ends with it.
Track == writtenFor' = IF <<filters', page'>> # <<filters, page>> THEN slug' ELSE writtenFor

\* ------------------------------------------------------ window and storage
\* The user resizes the window: nothing renders until some state changes.
Resize(h) ==
    /\ h # innerHeight
    /\ innerHeight' = h
    /\ UNCHANGED <<slug, loaded, notice, isInstalling, storage, storagePending,
                   windowHeight, selectedFont, fontsToInstall, page, filters,
                   renderConfirmDialog, fetches, runs, timers, armed>>
    /\ Track

\* Another tab writes the permission flag; its storage event comes later.
OtherTabWrite(v) ==
    /\ v # storage
    /\ storage' = v
    /\ storagePending' = TRUE
    /\ UNCHANGED <<slug, loaded, notice, isInstalling, innerHeight, windowHeight,
                   selectedFont, fontsToInstall, page, filters, renderConfirmDialog,
                   fetches, runs, timers, armed>>
    /\ Track

\* A handleStorage that forgets requiresPermission.
handleStorageAnySlug(s, v) == ~(v = "true")

\* handleStorage's value for renderConfirmDialog, for the slug s of the
\* render that subscribed it and the flag v in storage.
handleStorage(s, v) == s = "google-fonts" /\ ~(v = "true")

\* The window's storage event reaches handleStorage.
StorageEvent ==
    /\ storagePending
    /\ storagePending' = FALSE
    /\ renderConfirmDialog' = handleStorage(slug, storage)
    /\ IF renderConfirmDialog' # renderConfirmDialog THEN Render ELSE NoRender
    /\ UNCHANGED <<slug, loaded, notice, isInstalling, storage, innerHeight,
                   selectedFont, fontsToInstall, page, filters, fetches, runs, timers>>
    /\ Track

\* The Actions menu is rendered for google-fonts, with no dialog and no font selected.
ActionsShown == slug = "google-fonts" /\ ~renderConfirmDialog /\ selectedFont = NoFont

\* revokeAccess: setItem( 'false' ), then a storage event dispatched at once.
revokeAccess ==
    /\ ActionsShown
    /\ storage' = "false"
    /\ renderConfirmDialog' = handleStorage(slug, storage')
    /\ IF renderConfirmDialog' # renderConfirmDialog THEN Render ELSE NoRender
    /\ UNCHANGED <<slug, loaded, notice, isInstalling, storagePending, innerHeight,
                   selectedFont, fontsToInstall, page, filters, fetches, runs, timers>>
    /\ Track

\* GoogleFontsConfirmDialog's button: setItem( 'true' ), then a storage event.
GoogleFontsConfirm ==
    /\ renderConfirmDialog
    /\ storage' = "true"
    /\ renderConfirmDialog' = handleStorage(slug, storage')
    /\ IF renderConfirmDialog' # renderConfirmDialog THEN Render ELSE NoRender
    /\ UNCHANGED <<slug, loaded, notice, isInstalling, storagePending, innerHeight,
                   selectedFont, fontsToInstall, page, filters, fetches, runs, timers>>
    /\ Track

\* -------------------------------------------------------------- collection
\* A [ selectedFont ] effect that keeps the list.
selectedFontEffectKeeps(list) == list

\* The [ selectedFont ] effect: what it leaves of fontsToInstall.
selectedFontEffect(list) == <<>>

\* The slug prop changes.  The effects run in order: handleStorage(); the
\* fetch effect with this render's notice; setSelectedFont( null ) and
\* setNotice( null ); then, on the render these cause, setFontsToInstall( [] )
\* when selectedFont changed and the fetch effect again when notice changed.
ChangeSlug(s) ==
    LET e1 == FetchEffect(filters, page, fetches, s, notice # NoticeNone)
        e2 == IF notice # NoticeNone
              THEN FetchEffect(e1.filters, e1.page, e1.fetches, s, FALSE)
              ELSE e1
    IN /\ s # slug
       /\ Len(e2.fetches) <= MaxFetches
       /\ slug' = s
       /\ renderConfirmDialog' = handleStorage(s, storage)
       /\ selectedFont' = NoFont
       /\ notice' = NoticeNone
       /\ fontsToInstall' = IF selectedFont # NoFont
                            THEN selectedFontEffect(fontsToInstall)
                            ELSE fontsToInstall
       /\ filters' = e2.filters
       /\ page' = e2.page
       /\ fetches' = e2.fetches
       /\ Render
       /\ UNCHANGED <<loaded, isInstalling, storage, storagePending, innerHeight,
                      runs, timers>>
       /\ Track

resetFilters == filters' = EmptyFilters /\ page' = 1

\* getFontCollection( slug ) resolves: the store holds the collection, and
\* fetchFontCollection goes on to resetFilters().
FetchSuccess(i) ==
    /\ i \in 1..Len(fetches)
    /\ loaded' = [loaded EXCEPT ![fetches[i].slug] = TRUE]
    /\ resetFilters
    /\ fetches' = RemoveAt(fetches, i)
    /\ Render
    /\ UNCHANGED <<slug, notice, isInstalling, storage, storagePending, innerHeight,
                   selectedFont, fontsToInstall, renderConfirmDialog, runs, timers>>
    /\ Track

\* getFontCollection( slug ) rejects: a notice is set unless the render that
\* started the call had one; the new notice runs the fetch effect again.
FetchFail(i) ==
    /\ i \in 1..Len(fetches)
    /\ IF fetches[i].noticeSet
       THEN /\ fetches' = RemoveAt(fetches, i)
            /\ NoRender
            /\ UNCHANGED <<notice, filters, page>>
       ELSE LET e == FetchEffect(filters, page, RemoveAt(fetches, i), slug, TRUE)
            IN /\ notice' = NoticeFetchError
               /\ filters' = e.filters
               /\ page' = e.page
               /\ fetches' = e.fetches
               /\ Render
    /\ UNCHANGED <<slug, loaded, isInstalling, storage, storagePending, innerHeight,
                   selectedFont, fontsToInstall, renderConfirmDialog, runs, timers>>
    /\ Track

\* ------------------------------------------------------------------ filters
\* The search input and the category select are rendered.
FiltersShown == ~renderConfirmDialog /\ selectedFont = NoFont

handleCategoryFilter(category) ==
    /\ FiltersShown
    /\ category # (IF filters.category = Undef THEN "all" ELSE filters.category)
    /\ filters' = [filters EXCEPT !.category = category]
    /\ page' = 1
    /\ Render
    /\ UNCHANGED <<slug, loaded, notice, isInstalling, storage, storagePending,
                   innerHeight, selectedFont, fontsToInstall, renderConfirmDialog,
                   fetches, runs, timers>>
    /\ Track

\* The filters a call of handleUpdateSearchInput sets: the filters of the
\* render that built the handler, with the search replaced.
UpdatedSearch(closure, value) == [closure EXCEPT !.search = value]

\* The input's onChange: this render's debounced function is called.  A call
\* within the wait re-arms its timer; the handler keeps this render's filters.
debouncedUpdateSearchInput(value) ==
    /\ FiltersShown
    /\ IF armed
       THEN timers' = Append(SubSeq(timers, 1, Len(timers) - 1),
                             [value |-> value, closure |-> filters])
       ELSE /\ Len(timers) < MaxTimers
            /\ timers' = Append(timers, [value |-> value, closure |-> filters])
    /\ armed' = TRUE
    /\ UNCHANGED <<slug, loaded, notice, isInstalling, storage, storagePending,
                   innerHeight, windowHeight, selectedFont, fontsToInstall, page,
                   filters, renderConfirmDialog, fetches, runs>>
    /\ Track

\* 300 ms after its last call the oldest pending debounced function runs
\* handleUpdateSearchInput( value ).
handleUpdateSearchInput ==
    /\ timers # <<>>
    /\ filters' = UpdatedSearch(timers[1].closure, timers[1].value)
    /\ page' = 1
    /\ timers' = Tail(timers)
    /\ Render
    /\ UNCHANGED <<slug, loaded, notice, isInstalling, storage, storagePending,
                   innerHeight, selectedFont, fontsToInstall, renderConfirmDialog,
                   fetches, runs>>
    /\ Track

resetSearch ==
    /\ FiltersShown
    /\ filters.search \notin {Undef, ""}
    /\ filters' = [filters EXCEPT !.search = ""]
    /\ page' = 1
    /\ Render
    /\ UNCHANGED <<slug, loaded, notice, isInstalling, storage, storagePending,
                   innerHeight, selectedFont, fontsToInstall, renderConfirmDialog,
                   fetches, runs, timers>>
    /\ Track

\* --------------------------------------------------------------- pagination
\* footerComponent is the PaginationFooter.
PaginationShown == selectedFont = NoFont /\ ~renderConfirmDialog /\ totalPages > 1

SetPage(p) ==
    /\ page' = p
    /\ Render
    /\ UNCHANGED <<slug, loaded, notice, isInstalling, storage, storagePending,
                   innerHeight, selectedFont, fontsToInstall, filters,
                   renderConfirmDialog, fetches, runs, timers>>
    /\ Track

FirstPage == PaginationShown /\ page # 1 /\ SetPage(1)

PreviousPage == PaginationShown /\ page # 1 /\ SetPage(page - 1)

NextPage == PaginationShown /\ page # totalPages /\ page < MaxPage /\ SetPage(page + 1)

LastPage == PaginationShown /\ page # totalPages /\ SetPage(totalPages)

\* The page select offers 1..totalPages.
SelectPage(newPage) ==
    /\ PaginationShown
    /\ newPage \in 1..totalPages
    /\ newPage # page
    /\ SetPage(newPage)

\* ----------------------------------------------------------- font selection
\* A FontCard of the current page is clicked; the [ selectedFont ] effect
\* then empties fontsToInstall.
SelectFont(f) ==
    /\ ~renderConfirmDialog
    /\ selectedFont = NoFont
    /\ f \in Range(items)
    /\ selectedFont' = f
    /\ fontsToInstall' = selectedFontEffect(fontsToInstall)
    /\ Render
    /\ UNCHANGED <<slug, loaded, notice, isInstalling, storage, storagePending,
                   innerHeight, page, filters, renderConfirmDialog, fetches, runs,
                   timers>>
    /\ Track

handleUnselectFont ==
    /\ selectedFont # NoFont
    /\ selectedFont' = NoFont
    /\ fontsToInstall' = selectedFontEffect(fontsToInstall)
    /\ Render
    /\ UNCHANGED <<slug, loaded, notice, isInstalling, storage, storagePending,
                   innerHeight, page, filters, renderConfirmDialog, fetches, runs,
                   timers>>
    /\ Track

\* CollectionFontDetails toggles a face of the selected family, or the whole
\* family when it declares no faces.
handleToggleVariant(face) ==
    /\ ~renderConfirmDialog
    /\ selectedFont # NoFont
    /\ face \in (IF HasFontFace(selectedFont) THEN Faces ELSE {Undef})
    /\ fontsToInstall' = toggleFont(selectedFont, face, fontsToInstall)
    /\ Render
    /\ UNCHANGED <<slug, loaded, notice, isInstalling, storage, storagePending,
                   innerHeight, selectedFont, page, filters, renderConfirmDialog,
                   fetches, runs, timers>>
    /\ Track

\* ------------------------------------------------------------------ install
\* The Install button of InstallFooter is rendered and enabled.
InstallEnabled == selectedFont # NoFont /\ fontsToInstall # <<>> /\ ~isInstalling

\* A handleInstall run reaches `await installFont( fontFamily )`: the store
\* raises isInstalling for the time of the call.
CallInstallFont(run) == [run EXCEPT !.pc = "installing"]

\* The Install button is clicked: setNotice( null ) (which runs the fetch
\* effect when there was a notice), then the downloads of the faces with a
\* src start; with none to download installFont is called in the same task.
handleInstall(r) ==
    LET fontFamily == fontsToInstall[1]
        run == [pc |-> "downloading", fontFamily |-> fontFamily, file |-> {}, failed |-> {}]
        e == IF notice # NoticeNone
             THEN FetchEffect(filters, page, fetches, slug, FALSE)
             ELSE [filters |-> filters, page |-> page, fetches |-> fetches]
    IN /\ InstallEnabled
       /\ runs[r].pc = "idle"
       /\ \A q \in 1..(r - 1) : runs[q].pc # "idle"
       /\ Len(e.fetches) <= MaxFetches
       /\ notice' = NoticeNone
       /\ filters' = e.filters
       /\ page' = e.page
       /\ fetches' = e.fetches
       /\ IF FacesToDownload(fontFamily) = {}
          THEN /\ runs' = [runs EXCEPT ![r] = CallInstallFont(run)]
               /\ isInstalling' = TRUE
          ELSE /\ runs' = [runs EXCEPT ![r] = run]
               /\ UNCHANGED isInstalling
       /\ Render
       /\ UNCHANGED <<slug, loaded, storage, storagePending, innerHeight,
                      selectedFont, fontsToInstall, renderConfirmDialog, timers>>
       /\ Track

\* downloadFontFaceAssets( fontFace.src ) resolves: fontFace.file is set.
\* With the last one Promise.all resolves and installFont is called.
DownloadOk(r, face) ==
    LET run == [runs[r] EXCEPT !.file = @ \cup {face}]
    IN /\ runs[r].pc = "downloading"
       /\ face \in FacesToDownload(runs[r].fontFamily) \ runs[r].file
       /\ IF run.file = FacesToDownload(run.fontFamily)
          THEN /\ runs' = [runs EXCEPT ![r] = CallInstallFont(run)]
               /\ isInstalling' = TRUE
               /\ Render
          ELSE /\ runs' = [runs EXCEPT ![r] = run]
               /\ UNCHANGED isInstalling
               /\ NoRender
       /\ UNCHANGED <<slug, loaded, notice, storage, storagePending, innerHeight,
                      selectedFont, fontsToInstall, page, filters,
                      renderConfirmDialog, fetches, timers>>
       /\ Track

\* A catch without its return: the run goes on to installFont.
AfterDownloadErrorNoReturn(run) == CallInstallFont(run)

\* What a handleInstall run becomes when a download rejects: the catch
\* returns, the run is over.
AfterDownloadError(run) == IdleRun

\* downloadFontFaceAssets rejects: Promise.all rejects, the catch sets the
\* generic notice and returns.  The new notice runs the fetch effect.
DownloadFail(r, face) ==
    LET e == FetchEffect(filters, page, fetches, slug, TRUE)
        after == AfterDownloadError([runs[r] EXCEPT !.failed = @ \cup {face}])
    IN /\ runs[r].pc = "downloading"
       /\ face \in FacesToDownload(runs[r].fontFamily) \ runs[r].file
       /\ Len(e.fetches) <= MaxFetches
       /\ notice' = NoticeDownloadError
       /\ runs' = [runs EXCEPT ![r] = after]
       /\ isInstalling' = (isInstalling \/ after.pc = "installing")
       /\ filters' = e.filters
       /\ page' = e.page
       /\ fetches' = e.fetches
       /\ Render
       /\ UNCHANGED <<slug, loaded, storage, storagePending, innerHeight,
                      selectedFont, fontsToInstall, renderConfirmDialog, timers>>
       /\ Track

\* A resetFontsToInstall that keeps the list.
resetFontsToInstallKeeps(list) == list

\* What resetFontsToInstall() leaves of the list.
resetFontsToInstall(list) == <<>>

\* installFont settles: the notice is set, then resetFontsToInstall(); the
\* store lowers isInstalling.  The new notice runs the fetch effect.
InstallSettled(r, newNotice) ==
    LET e == FetchEffect(filters, page, fetches, slug, TRUE)
    IN /\ runs[r].pc = "installing"
       /\ Len(e.fetches) <= MaxFetches
       /\ notice' = newNotice
       /\ fontsToInstall' = resetFontsToInstall(fontsToInstall)
       /\ isInstalling' = FALSE
       /\ runs' = [runs EXCEPT ![r] = IdleRun]
       /\ filters' = e.filters
       /\ page' = e.page
       /\ fetches' = e.fetches
       /\ Render
       /\ UNCHANGED <<slug, loaded, storage, storagePending, innerHeight,
                      selectedFont, renderConfirmDialog, timers>>
       /\ Track

\* The notice handleInstall sets when installFont resolves.
InstalledNotice == NoticeSuccess

InstallResolve(r) == InstallSettled(r, InstalledNotice)

InstallReject(r) == InstallSettled(r, NoticeInstallError)

\* ------------------------------------------------------------ specification
Next ==
    \/ \E h \in Heights : Resize(h)
    \/ \E v \in StorageValues : OtherTabWrite(v)
    \/ StorageEvent
    \/ revokeAccess
    \/ GoogleFontsConfirm
    \/ \E s \in Slugs : ChangeSlug(s)
    \/ \E i \in 1..MaxFetches : FetchSuccess(i)
    \/ \E i \in 1..MaxFetches : FetchFail(i)
    \/ \E c \in CategoryOptions : handleCategoryFilter(c)
    \/ \E v \in SearchInputs : debouncedUpdateSearchInput(v)
    \/ handleUpdateSearchInput
    \/ resetSearch
    \/ FirstPage
    \/ PreviousPage
    \/ NextPage
    \/ LastPage
    \/ \E p \in 1..MaxPage : SelectPage(p)
    \/ \E f \in AllFonts : SelectFont(f)
    \/ handleUnselectFont
    \/ \E face \in Faces \cup {Undef} : handleToggleVariant(face)
    \/ \E r \in 1..MaxRuns : handleInstall(r)
    \/ \E r \in 1..MaxRuns, face \in Faces : DownloadOk(r, face)
    \/ \E r \in 1..MaxRuns, face \in Faces : DownloadFail(r, face)
    \/ \E r \in 1..MaxRuns : InstallResolve(r)
    \/ \E r \in 1..MaxRuns : InstallReject(r)

Spec == Init /\ [][Next]_vars

\* The steps of the collection and its fetch.
CollectionStep ==
    \/ \E s \in Slugs : ChangeSlug(s)
    \/ \E i \in 1..MaxFetches : FetchSuccess(i)
    \/ \E i \in 1..MaxFetches : FetchFail(i)

\* The steps of the permission dialog.
PermissionStep ==
    \/ revokeAccess
    \/ GoogleFontsConfirm

PaginationStep ==
    \/ FirstPage
    \/ PreviousPage
    \/ NextPage
    \/ LastPage
    \/ \E p \in 1..MaxPage : SelectPage(p)

SelectionStep ==
    \/ \E f \in AllFonts : SelectFont(f)
    \/ handleUnselectFont
    \/ \E face \in Faces \cup {Undef} : handleToggleVariant(face)

InstallStep ==
    \/ \E r \in 1..MaxRuns : handleInstall(r)
    \/ \E r \in 1..MaxRuns, face \in Faces : DownloadOk(r, face)
    \/ \E r \in 1..MaxRuns, face \in Faces : DownloadFail(r, face)
    \/ \E r \in 1..MaxRuns : InstallResolve(r)
    \/ \E r \in 1..MaxRuns : InstallReject(r)

\* Browsing: the collection, the filters (one debounced search pending at a
\* time), the pagination and the window.
NextBrowse ==
    \/ \E s \in Slugs : ChangeSlug(s)
    \/ \E i \in 1..MaxFetches : FetchSuccess(i)
    \/ GoogleFontsConfirm
    \/ PaginationStep
    \/ \E h \in Heights : Resize(h)
    \/ \E c \in CategoryOptions : handleCategoryFilter(c)
    \/ resetSearch
    \/ \E v \in SearchInputs : debouncedUpdateSearchInput(v) /\ timers = <<>>
    \/ handleUpdateSearchInput

SpecBrowse == Init /\ [][NextBrowse]_vars

\* Searching: the filter handlers and the debounced search of one collection.
NextSearch ==
    \/ \E i \in 1..MaxFetches : FetchSuccess(i)
    \/ GoogleFontsConfirm
    \/ \E c \in CategoryOptions : handleCategoryFilter(c)
    \/ \E v \in SearchInputs : debouncedUpdateSearchInput(v)
    \/ handleUpdateSearchInput
    \/ resetSearch
    \/ NextPage

SpecSearch == Init /\ [][NextSearch]_vars

\* Installing: selecting a family, toggling its faces and installing it.
NextInstall ==
    \/ \E i \in 1..MaxFetches : FetchSuccess(i)
    \/ SelectionStep
    \/ InstallStep

\* Mounted with the permission given, in a window that shows two families.
InitInstall == Init /\ storage = "true" /\ innerHeight = 539

SpecInstall == InitInstall /\ [][NextInstall]_vars

\* One install at a time, among the filter and pagination steps.
NextFrame ==
    \/ \E i \in 1..MaxFetches : FetchSuccess(i)
    \/ GoogleFontsConfirm
    \/ SelectionStep
    \/ handleInstall(1)
    \/ \E face \in Faces : DownloadOk(1, face)
    \/ \E face \in Faces : DownloadFail(1, face)
    \/ InstallResolve(1)
    \/ InstallReject(1)
    \/ \E c \in CategoryOptions : handleCategoryFilter(c)
    \/ NextPage
    \/ PreviousPage

SpecFrame == Init /\ [][NextFrame]_vars

\* Selecting: the ways selectedFont changes, among one install at a time.
NextSelect ==
    \/ CollectionStep
    \/ PermissionStep
    \/ SelectionStep
    \/ handleInstall(1)
    \/ \E face \in Faces : DownloadOk(1, face)
    \/ \E face \in Faces : DownloadFail(1, face)
    \/ InstallResolve(1)
    \/ InstallReject(1)

SpecSelect == Init /\ [][NextSelect]_vars

\* The collection and its fetch, among the steps that write filters and page.
NextCollection ==
    \/ CollectionStep
    \/ GoogleFontsConfirm
    \/ \E c \in CategoryOptions : handleCategoryFilter(c)
    \/ NextPage
    \/ PreviousPage

SpecCollection == Init /\ [][NextCollection]_vars

\* The permission gate: the flag, its events, and what shows the Actions menu.
NextPermission ==
    \/ \E v \in StorageValues : OtherTabWrite(v)
    \/ StorageEvent
    \/ PermissionStep
    \/ CollectionStep
    \/ \E f \in AllFonts : SelectFont(f)
    \/ handleUnselectFont

SpecPermission == Init /\ [][NextPermission]_vars

\* ------------------------------------------------------------------- claims
\* The pages 1..k of a list, one after the other.
RECURSIVE PagesUpTo(_, _, _)
PagesUpTo(fs, k, ps) ==
    IF k = 0 THEN <<>> ELSE PagesUpTo(fs, k - 1, ps) \o ItemsOf(fs, k, ps)

\* C3: whenever the pagination footer is shown, the current page lies in
\* 1..totalPages, after any pagination action, filter change, collection
\* load and window-height change.
C3_PageWithinTotalPages == PaginationShown => (1 <= page /\ page <= totalPages)

\* C4: the page size is floor((max(window height, 500) - 417) / 61) and at
\* least 1, the page count is ceil(filtered count / page size), and the
\* pages 1..totalPages hold every filtered font once, in order, none empty.
C4_PageCountConsistent ==
    /\ windowHeight >= MIN_WINDOW_HEIGHT
    /\ \E h \in Heights : windowHeight = Max(h, MIN_WINDOW_HEIGHT)
    /\ pageSize >= 1
    /\ pageSize * ItemHeight <= windowHeight - UnavailableHeight
    /\ windowHeight - UnavailableHeight < (pageSize + 1) * ItemHeight
    /\ totalPages >= 0
    /\ totalPages * pageSize >= Len(fonts)
    /\ (totalPages - 1) * pageSize < Len(fonts)
    /\ PagesUpTo(fonts, totalPages, pageSize) = fonts
    /\ \A p \in 1..totalPages : ItemsOf(fonts, p, pageSize) # <<>>

\* A filtered list of three fonts shown two to a page, on its last page.
C4_Witness == Len(fonts) = 3 /\ pageSize = 2 /\ totalPages = 2 /\ page = 2 /\ Len(items) = 1

\* C1: a handleInstall run calls installFont only with every face that has
\* a src downloaded and none failed; the step in which a download fails sets
\* the generic error notice and does not call installFont.
C1_DownloadFailureAbortsInstall ==
    /\ [](\A r \in 1..MaxRuns :
            runs[r].pc = "installing" =>
                /\ runs[r].failed = {}
                /\ FacesToDownload(runs[r].fontFamily) \subseteq runs[r].file)
    /\ [][\A r \in 1..MaxRuns, face \in Faces :
            DownloadFail(r, face) =>
                /\ notice' = NoticeDownloadError
                /\ runs'[r].pc # "installing"]_vars

\* A download failed: the generic notice shows, no run is left, installFont
\* is not in progress and the install list is as it was.
C1_Witness ==
    /\ notice = NoticeDownloadError
    /\ RunsInProgress = {}
    /\ ~isInstalling
    /\ fontsToInstall # <<>>

\* C2: at most one handleInstall run is in progress at any time.
C2_AtMostOneInstallRun == Cardinality(RunsInProgress) <= 1

\* C5: every change of selectedFont leaves fontsToInstall empty, and the
\* list holds only the selected font.
C5_InstallListClearedOnSelection ==
    /\ [](\A i \in 1..Len(fontsToInstall) : fontsToInstall[i].font = selectedFont)
    /\ [][selectedFont' # selectedFont => fontsToInstall' = <<>>]_vars

\* While a run installs one family, another family is selected and queued:
\* the selection changed after the list was filled, and the list was refilled.
C5_Witness ==
    \E r \in 1..MaxRuns :
        /\ runs[r].pc # "idle"
        /\ selectedFont # NoFont
        /\ fontsToInstall # <<>>
        /\ runs[r].fontFamily.font # selectedFont

\* C6: the step in which installFont resolves sets a notice of type success
\* and empties fontsToInstall, whatever the list holds by then.
C6_SuccessClearsInstallList ==
    [][\A r \in 1..MaxRuns :
            InstallResolve(r) => (notice'.type = "success" /\ fontsToInstall' = <<>>)]_vars

\* An install has resolved with the font still selected.
C6_Witness ==
    /\ notice = NoticeSuccess
    /\ fontsToInstall = <<>>
    /\ selectedFont # NoFont
    /\ RunsInProgress = {}

\* C7: with no storage event outstanding, the dialog is rendered exactly when
\* the collection is google-fonts and the flag is not 'true'; for any other
\* collection it is never rendered.
C7_DialogFollowsPermission ==
    /\ ~storagePending =>
            (renderConfirmDialog <=> (slug = "google-fonts" /\ storage # "true"))
    /\ slug # "google-fonts" => ~renderConfirmDialog

\* Access was revoked on the loaded google-fonts collection: the dialog is back.
C7_Witness ==
    /\ slug = "google-fonts"
    /\ loaded[slug]
    /\ storage = "false"
    /\ ~storagePending
    /\ renderConfirmDialog

\* C8: once no fetch of the current collection is in flight, whether it
\* resolved or rejected, filters and page are not left over from another
\* collection: they are empty and 1, or were written under this slug.
C8_FiltersResetOnCollectionChange ==
    (\A i \in 1..Len(fetches) : fetches[i].slug # slug) =>
        (writtenFor = slug \/ (filters = EmptyFilters /\ page = 1))

\* C9: updating one filter field preserves the other: the debounced search
\* callback leaves the category as it finds it.
C9_SearchUpdateKeepsCategory ==
    [][handleUpdateSearchInput => filters'.category = filters.category]_vars

\* C10: a step of a handleInstall run, a font selection or a toggle, with
\* the slug unchanged, leaves filters and page unchanged.
C10_InstallLeavesFiltersAndPage ==
    [][((runs' # runs \/ selectedFont' # selectedFont \/ fontsToInstall' # fontsToInstall)
            /\ slug' = slug)
        => UNCHANGED <<filters, page>>]_vars

====
